---- MODULE Spec2Model ----
(***************************************************************************)
(* LifeTrack Telegram bot.                                                 *)
(*                                                                         *)
(* Part I   the archived natural-language pipeline: RetryContext,          *)
(*          RetryStrategy and the loop _generate_with_retry that drives    *)
(*          them for one user message (specification SpecRetry).          *)
(***************************************************************************)
EXTENDS Integers, Sequences, FiniteSets, TLC

(***************************************************************************)
(* Bounds of the model.                                                    *)
(***************************************************************************)
\* largest max_attempts a RetryStrategy is constructed with
MaxAttemptsBound == 3
\* longest list of validation errors one generated query yields
MaxValidationErrors == 1

(***************************************************************************)
(* Texts.  A Python str that is only searched for substrings is modelled   *)
(* by the text itself plus the table of the patterns it contains.         *)
(***************************************************************************)
\* messages the schema validator produces (_validate_query)
ValidatorMessages ==
    { "Cannot query field 'nme' on type 'Skill'.",
      "Cannot query field 'titel' on type 'Note'.",
      "Unknown argument 'skil' on field 'Mutation.startSession'.",
      "Expected type 'Int!', found 'ten'.",
      "Field 'network' of type 'Network' must have a selection of subfields." }

\* the exceptions generate_query raises before its own try block (context
\* retrieval, prompt building): the class and str(e)
GenerateExceptions ==
    { [cls |-> "ValueError", text |-> "Template not found: query_generation_v1"] }

\* the exceptions execute_with_resolution raises: the class and str(e).
\* A TimeoutError of the client's execute_timeout has no text.
Exceptions ==
    { [cls |-> "TimeoutError",        text |-> ""],
      [cls |-> "TransportQueryError", text |-> "Cannot query field 'nme' on type 'Skill'."],
      [cls |-> "TransportQueryError", text |-> "Unknown argument 'skil' on field 'Mutation.startSession'."],
      [cls |-> "ValueError",          text |-> "No active session found"],
      [cls |-> "TransportServerError", text |-> "Authentication required"],
      [cls |-> "ClientConnectorError", text |-> "Cannot connect to host backend:8080 [Connection refused]"] }

\* the case-sensitive patterns of _extract_error_type found in a message
ExactPatternsIn(msg) ==
    CASE msg \in { "Cannot query field 'nme' on type 'Skill'.",
                   "Cannot query field 'titel' on type 'Note'." }
           -> {"Cannot query field"}
      [] msg = "Unknown argument 'skil' on field 'Mutation.startSession'."
           -> {"Unknown argument"}
      [] msg = "Expected type 'Int!', found 'ten'."
           -> {"Expected type"}
      [] OTHER -> {}

\* the lower-cased patterns of _is_retryable_error found in msg.lower()
LowerPatternsIn(msg) ==
    CASE msg \in { "Cannot query field 'nme' on type 'Skill'.",
                   "Cannot query field 'titel' on type 'Note'." }
           -> {"cannot query field"}
      [] msg = "Unknown argument 'skil' on field 'Mutation.startSession'."
           -> {"unknown argument"}
      [] msg = "Expected type 'Int!', found 'ten'."
           -> {"expected type"}
      [] msg = "Field 'network' of type 'Network' must have a selection of subfields."
           -> {"network"}
      [] msg = "Authentication required"
           -> {"authentication"}
      [] msg = "Cannot connect to host backend:8080 [Connection refused]"
           -> {"connection"}
      [] OTHER -> {}

\* An error string is '; '.join(messages): the sequence of its messages.
\* None is the empty sequence; str(e) is the one-message sequence.
NoError == << >>

\* pattern in error  (case-sensitive substring test on the joined string)
ContainsExact(error, pattern) ==
    \E i \in 1..Len(error) : pattern \in ExactPatternsIn(error[i])

\* pattern in error.lower()
ContainsLower(error, pattern) ==
    \E i \in 1..Len(error) : pattern \in LowerPatternsIn(error[i])

(***************************************************************************)
(* Query texts are sequences of characters.                                *)
(***************************************************************************)
NoQuery == << >>

GeneratedQueries ==
    { <<"{", "a", "}">>,
      <<"{", " ", "a", "}">>,
      <<"{", " ", " ", "A", "}">>,
      <<"{", "b", "}">> }

IsSpace(c) == c \in {" ", "\n", "\t"}

Lower(c) == CASE c = "A" -> "a" [] c = "B" -> "b" [] OTHER -> c

RECURSIVE LStrip(_)
LStrip(s) == IF s # << >> /\ IsSpace(Head(s)) THEN LStrip(Tail(s)) ELSE s

RECURSIVE RStrip(_)
RStrip(s) ==
    IF s # << >> /\ IsSpace(s[Len(s)]) THEN RStrip(SubSeq(s, 1, Len(s) - 1)) ELSE s

\* re.sub(r'\s+', ' ', s): every run of whitespace becomes one space
RECURSIVE CollapseSpaces(_)
CollapseSpaces(s) ==
    IF s = << >> THEN << >>
    ELSE IF IsSpace(Head(s))
         THEN <<" ">> \o CollapseSpaces(LStrip(s))
         ELSE <<Head(s)>> \o CollapseSpaces(Tail(s))

LowerAll(s) == [i \in 1..Len(s) |-> Lower(s[i])]

\* RetryStrategy._normalize_query
NormalizeQuery(query) == LowerAll(CollapseSpaces(RStrip(LStrip(query))))

(***************************************************************************)
(* RetryContext                                                            *)
(***************************************************************************)
\* RetryStrategy.create_context
CreateContext(max) ==
    [ attempt           |-> 1,
      max_attempts      |-> max,
      last_error        |-> NoError,
      last_query        |-> NoQuery,
      validation_errors |-> << >> ]

HasRetriesLeftOffByOne(ctx) == ctx.attempt <= ctx.max_attempts

\* RetryContext.has_retries_left
HasRetriesLeft(ctx) == ctx.attempt < ctx.max_attempts

\* RetryContext.record_failure
RecordFailure(ctx, error, failed_query) ==
    [ ctx EXCEPT !.last_error = error,
                 !.last_query = IF failed_query # NoQuery THEN failed_query ELSE @,
                 !.validation_errors = Append(@, error) ]

\* RetryContext._extract_error_type
ExtractErrorType(error) ==
    IF ContainsExact(error, "Cannot query field") THEN "cannot_query_field"
    ELSE IF ContainsExact(error, "Unknown argument") THEN "unknown_argument"
    ELSE IF ContainsExact(error, "Expected type") THEN "type_mismatch"
    ELSE "unknown"

\* RetryContext.is_repeated_error
IsRepeatedError(ctx) ==
    LET n == Len(ctx.validation_errors) IN
    IF n < 2 THEN FALSE
    ELSE LET last     == ctx.validation_errors[n]
             previous == ctx.validation_errors[n - 1]
         IN  last = previous \/ ExtractErrorType(last) = ExtractErrorType(previous)

(***************************************************************************)
(* RetryStrategy                                                           *)
(***************************************************************************)
RetryablePatterns ==
    {"cannot query field", "unknown argument", "expected type",
     "graphql_validation_failed"}

NonRetryablePatterns ==
    {"authentication", "authorization", "timeout", "network", "connection"}

\* RetryStrategy._is_retryable_error
IsRetryableError(error) ==
    IF \E p \in RetryablePatterns : ContainsLower(error, p) THEN TRUE
    ELSE IF \E p \in NonRetryablePatterns : ContainsLower(error, p) THEN FALSE
    ELSE TRUE

\* RetryStrategy.should_retry, on the context record_failure has updated
ShouldRetry(recorded, error) ==
    IF ~HasRetriesLeft(recorded) THEN "fail"
    ELSE IF IsRepeatedError(recorded) THEN "fail"
    ELSE IF IsRetryableError(error) THEN "retry"
    ELSE "fail"

CheckDuplicateQueryNever(ctx, new_query) == FALSE

\* RetryStrategy.check_duplicate_query  (fail_on_duplicate is True)
CheckDuplicateQuery(ctx, new_query) ==
    /\ ctx.last_query # NoQuery
    /\ NormalizeQuery(new_query) = NormalizeQuery(ctx.last_query)

(***************************************************************************)
(* State                                                                   *)
(***************************************************************************)
VARIABLES
    \* ---- archived_llm/handlers/message.py: one user message --------------
    retry_context,  \* the RetryContext of _generate_with_retry
    pc,             \* position of _generate_with_retry / handle_message
    query_result,   \* local query_result: the last value generate_query returned
    gen_calls,      \* number of generate_query calls made for the message
    gen_context,    \* the retry context handed to the last generate_query call
    outcome,        \* what _generate_with_retry returned or raised
    last_failure,   \* the failure of the last failed attempt (none before one)
    reply,          \* what handle_message sent to the user
    \* ---- the bot process ------------------------------------------------
    user_data,      \* context.user_data of each chat: a dict, key -> value
    active_users,   \* application.bot_data['active_users']: the items of the dict,
                    \* in the order a dict keeps them (first insertion of the key)
    task,           \* the update handler in flight and the await it is parked at
    last_run,       \* what the last finished handler did: reply sent, how it ended
    poller,         \* the task of start_notification_loop and its locals
    main,           \* position of main() and the handlers it has registered
    inbox,          \* commands users have sent that wait at Telegram for the bot
    \* ---- backend_client/simple_client.py: one GraphQLClient --------------
    client,         \* the fields of the client object (auth_token)
    request,        \* the method of the client in flight, its locals and position
    wire,           \* the operations the method has sent to the backend, in order
    answer,         \* what the last finished method returned or raised
    \* ---- the backend and Telegram, as the bot's calls change them ---------
    marked,         \* ids of the notifications markNotificationSent was applied to
    chat_messages,  \* ids of the notifications bot.send_message put into a chat
                    \* of the account (every login of the model is to one account)
    \* ---- handlers/file_handlers.py: upload_file_handler, step by step ------
    upload,         \* the locals and the position of the upload in flight; error is
                    \* the step whose exception the except clause caught
    uploads,        \* number of uploads started
    storage,        \* Config.FILE_STORAGE_PATH: file name -> the upload it holds
    records         \* the file records createFile made in the backend

retryVars ==
    <<retry_context, pc, query_result, gen_calls, gen_context, outcome, last_failure, reply>>

botVars == <<user_data, active_users, task, last_run, poller, main, inbox>>

clientVars == <<client, request, wire, answer>>

backendVars == <<marked, chat_messages>>

uploadVars == <<upload, uploads, storage, records>>

vars == <<retryVars, botVars, clientVars, backendVars, uploadVars>>

(***************************************************************************)
(* The bot process before any update, login or polling cycle               *)
(***************************************************************************)
\* the chats the model follows (Telegram ids of their users)
Users == {"u1", "u2"}

\* a dict with no key: a fresh context.user_data, and `{}` of post_init
EmptyDict == [k \in {} |-> TRUE]

\* no handler in flight
Idle ==
    [user |-> "none", handler |-> "none", pc |-> "idle", call |-> 0, failed |-> 0,
     arg |-> << >>]

NoRun == [failed |-> 0, reply |-> "none", result |-> "none"]

\* start_notification_loop parked at asyncio.sleep(interval)
PollerAsleep == [pc |-> "sleep", queue |-> << >>, notifs |-> << >>, sent |-> "none"]

MainNotStarted == [pc |-> "not_started", next |-> 0, token_set |-> TRUE, handlers |-> {}]

\* None, for a token
NoToken == ""

\* no method of the client in flight
NoRequest ==
    [op |-> "none", pc |-> "idle", original |-> << >>, query |-> << >>, skill_name |-> ""]

\* nothing received from the backend
NoReceived == [status |-> "none", login |-> FALSE, token |-> ""]

NoAnswer == [kind |-> "none", cls |-> "", value |-> << >>, received |-> NoReceived]

\* a client nobody has called yet: GraphQLClient(url, None)
ClientAtRest ==
    /\ client = [auth_token |-> NoToken]
    /\ request = NoRequest
    /\ wire = << >>
    /\ answer = NoAnswer

BotAtRest ==
    /\ user_data = [u \in Users |-> EmptyDict]
    /\ active_users = << >>
    /\ task = Idle
    /\ last_run = NoRun
    /\ poller = PollerAsleep
    /\ inbox = << >>

\* no notification has been marked sent or put into a chat yet
BackendAtRest == marked = {} /\ chat_messages = {}

\* no file name, as of a document Telegram sent without file_name
NoFilename == << >>

NoUpload ==
    [pc |-> "idle", id |-> 0, filename |-> NoFilename, target |-> NoFilename, error |-> "none"]

\* no upload yet: empty storage, no file record
UploadAtRest ==
    /\ upload = NoUpload
    /\ uploads = 0
    /\ storage = EmptyDict
    /\ records = {}

(***************************************************************************)
(* generate_query: what the generator hands back                           *)
(***************************************************************************)
\* non-empty lists of validator messages, joined by '; ' in the handler
ValidationErrorLists ==
    UNION { [1..n -> ValidatorMessages] : n \in 1..MaxValidationErrors }

NoResult == [kind |-> "unbound", query |-> NoQuery, validation_errors |-> << >>]

\* GraphQLGenerator._parse_response and the except branch of generate_query:
\* a clarification, a query that passed validation, or a query with its errors
GenerateQueryResults ==
    { [kind |-> "clarify", query |-> NoQuery, validation_errors |-> << >>] }
    \cup { [kind |-> "valid", query |-> q, validation_errors |-> << >>] :
             q \in GeneratedQueries }
    \cup { [kind |-> "validation_failed", query |-> q, validation_errors |-> errs] :
             q \in GeneratedQueries, errs \in ValidationErrorLists }

\* GraphQLGenerator._build_prompt_with_builder: what a call reads of the context
PromptContext(ctx) ==
    IF ctx.attempt > 1
    THEN [given |-> TRUE, validation_error |-> ctx.last_error, failed_query |-> ctx.last_query]
    ELSE [given |-> FALSE, validation_error |-> NoError, failed_query |-> NoQuery]

NoFailure == [cls |-> "none", error |-> NoError, query |-> NoQuery]

NoOutcome == [kind |-> "none", text |-> "", error |-> NoError]

RephraseQuestion == "I'm having trouble generating a valid query. Could you rephrase?"

StuckQuestion == "I'm stuck on this request. Please try rephrasing it differently."

GeneratorQuestion == "Could you provide more details?"

ExhaustedText ==
    "I tried multiple times but couldn't generate a valid query. Please rephrase your request."

ExhaustedResultAsClarification ==
    [kind |-> "needs_clarification", text |-> ExhaustedText, error |-> NoError]

\* the return after the while loop of _generate_with_retry
ExhaustedResult == [kind |-> "error", text |-> ExhaustedText, error |-> NoError]

NextAttemptSame(ctx) == ctx

\* retry_context.attempt += 1
NextAttempt(ctx) == [ctx EXCEPT !.attempt = @ + 1]

(***************************************************************************)
(* _generate_with_retry                                                    *)
(***************************************************************************)
InitRetry ==
    /\ \E max \in 2..MaxAttemptsBound : retry_context = CreateContext(max)
    /\ pc = "start"
    /\ query_result = NoResult
    /\ gen_calls = 0
    /\ gen_context = [given |-> FALSE, validation_error |-> NoError, failed_query |-> NoQuery]
    /\ outcome = NoOutcome
    /\ last_failure = NoFailure
    /\ reply = "none"
    /\ BotAtRest
    /\ ClientAtRest
    /\ BackendAtRest
    /\ UploadAtRest
    /\ main = MainNotStarted

\* while retry_context.has_retries_left(): ... ; return {'error': ...}
LoopGuard ==
    /\ pc \in {"start", "retrying"}
    /\ IF HasRetriesLeft(retry_context)
       THEN /\ pc' = "generating"
            /\ outcome' = outcome
       ELSE /\ pc' = "failed"
            /\ outcome' = ExhaustedResult
    /\ UNCHANGED <<retry_context, query_result, gen_calls, gen_context, last_failure, reply>>
    /\ UNCHANGED <<botVars, clientVars, backendVars, uploadVars>>

\* the except branch of the loop body, for an exception with text str(e)
\* raised while the local query_result holds `held`
ExceptBranch(e, held) ==
    LET text         == e.text
        error_str    == <<text>>
        failed_query == IF held.kind = "unbound" THEN NoQuery ELSE held.query
        recorded     == RecordFailure(retry_context, error_str, failed_query)
    IN  /\ last_failure' = [cls |-> e.cls, error |-> error_str, query |-> failed_query]
        /\ IF IsRetryableError(error_str)
           THEN IF ShouldRetry(recorded, error_str) = "fail"
                THEN /\ retry_context' = recorded
                     /\ pc' = "failed"
                     /\ outcome' = [kind |-> "raised", text |-> text, error |-> error_str]
                ELSE /\ retry_context' = NextAttempt(recorded)
                     /\ pc' = "retrying"
                     /\ outcome' = outcome
           ELSE /\ retry_context' = retry_context
                /\ pc' = "failed"
                /\ outcome' = [kind |-> "raised", text |-> text, error |-> error_str]

\* query_result = generator.generate_query(user_message, user_id, ctx or None)
GenerateReturns ==
    /\ pc = "generating"
    /\ gen_calls <= MaxAttemptsBound
    /\ gen_calls' = gen_calls + 1
    /\ gen_context' = PromptContext(retry_context)
    /\ \E r \in GenerateQueryResults : query_result' = r
    /\ pc' = "validating"
    /\ UNCHANGED <<retry_context, outcome, last_failure, reply>>
    /\ UNCHANGED <<botVars, clientVars, backendVars, uploadVars>>

\* generate_query raises before its own try (retrieval or prompt building)
GenerateRaises ==
    /\ pc = "generating"
    /\ gen_calls <= MaxAttemptsBound
    /\ gen_calls' = gen_calls + 1
    /\ gen_context' = PromptContext(retry_context)
    /\ \E e \in GenerateExceptions : ExceptBranch(e, query_result)
    /\ UNCHANGED <<query_result, reply>>
    /\ UNCHANGED <<botVars, clientVars, backendVars, uploadVars>>

\* the checks on query_result up to the await of the execution
Validate ==
    /\ pc = "validating"
    /\ CASE query_result.kind = "clarify" ->
              /\ pc' = "failed"
              /\ outcome' = [kind |-> "needs_clarification", text |-> GeneratorQuestion,
                             error |-> NoError]
              /\ UNCHANGED <<retry_context, last_failure>>
         [] query_result.kind = "validation_failed" ->
              LET error_str    == query_result.validation_errors
                  failed_query == query_result.query
                  recorded     == RecordFailure(retry_context, error_str, failed_query)
              IN  /\ last_failure' = [cls |-> "validation", error |-> error_str,
                                      query |-> failed_query]
                  /\ IF ShouldRetry(recorded, error_str) = "fail"
                     THEN /\ retry_context' = recorded
                          /\ pc' = "failed"
                          /\ outcome' = [kind |-> "needs_clarification",
                                         text |-> RephraseQuestion, error |-> error_str]
                     ELSE IF CheckDuplicateQuery(recorded, failed_query)
                     THEN /\ retry_context' = recorded
                          /\ pc' = "failed"
                          /\ outcome' = [kind |-> "needs_clarification",
                                         text |-> StuckQuestion, error |-> error_str]
                     ELSE /\ retry_context' = NextAttempt(recorded)
                          /\ pc' = "retrying"
                          /\ outcome' = outcome
         [] OTHER ->
              /\ pc' = "executing"
              /\ UNCHANGED <<retry_context, outcome, last_failure>>
    /\ UNCHANGED <<query_result, gen_calls, gen_context, reply>>
    /\ UNCHANGED <<botVars, clientVars, backendVars, uploadVars>>

\* result = await gql_client.execute_with_resolution(...); return {'result': result}
ExecuteReturns ==
    /\ pc = "executing"
    /\ pc' = "succeeded"
    /\ outcome' = [kind |-> "result", text |-> "", error |-> NoError]
    /\ UNCHANGED <<retry_context, query_result, gen_calls, gen_context, last_failure, reply>>
    /\ UNCHANGED <<botVars, clientVars, backendVars, uploadVars>>

\* the await raises
ExecuteRaises ==
    /\ pc = "executing"
    /\ \E e \in Exceptions : ExceptBranch(e, query_result)
    /\ UNCHANGED <<query_result, gen_calls, gen_context, reply>>
    /\ UNCHANGED <<botVars, clientVars, backendVars, uploadVars>>

\* handle_message, from the return of _generate_with_retry to its last reply
Reply ==
    /\ pc \in {"succeeded", "failed"}
    /\ pc' = "replied"
    /\ CASE outcome.kind = "needs_clarification" -> reply' = "clarification"
         [] outcome.kind = "error"  -> reply' = "error"
         [] outcome.kind = "raised" -> reply' = "exception"
         [] OTHER -> reply' \in {"response", "exception"}
    /\ UNCHANGED <<retry_context, query_result, gen_calls, gen_context, outcome, last_failure>>
    /\ UNCHANGED <<botVars, clientVars, backendVars, uploadVars>>

NextRetry ==
    \/ LoopGuard
    \/ GenerateReturns
    \/ GenerateRaises
    \/ Validate
    \/ ExecuteReturns
    \/ ExecuteRaises
    \/ Reply

SpecRetry == InitRetry /\ [][NextRetry]_vars

\* the handler is a coroutine the event loop keeps running until it returns
FairSpecRetry == SpecRetry /\ WF_vars(NextRetry)

(***************************************************************************)
(* Properties of the retry loop                                            *)
(***************************************************************************)
\* a step in which the current attempt fails: by an exception of the
\* generation or the execution, or by a query that failed validation
ExceptionFailStep ==
    /\ pc \in {"generating", "executing"}
    /\ pc' \in {"failed", "retrying"}

ValidationFailStep ==
    /\ pc = "validating"
    /\ query_result.kind = "validation_failed"
    /\ pc' \in {"failed", "retrying"}

\* the failing attempt repeats the error of the previous failed attempt
RepeatsPreviousError ==
    /\ last_failure.cls # "none"
    /\ \/ last_failure'.error = last_failure.error
       \/ ExtractErrorType(last_failure'.error) = ExtractErrorType(last_failure.error)

RECURSIVE RemoveSpaces(_)
RemoveSpaces(s) ==
    IF s = << >> THEN << >>
    ELSE IF IsSpace(Head(s)) THEN RemoveSpaces(Tail(s))
    ELSE <<Head(s)>> \o RemoveSpaces(Tail(s))

EqualIgnoringSpaceAndCase(q1, q2) ==
    RemoveSpaces(LowerAll(q1)) = RemoveSpaces(LowerAll(q2))

\* the attempt's query equals the previous failed attempt's query
DuplicatesPreviousQuery ==
    /\ last_failure.cls # "none"
    /\ last_failure.query # NoQuery
    /\ EqualIgnoringSpaceAndCase(query_result.query, last_failure.query)

AbortsWithClarification ==
    /\ pc' = "failed"
    /\ outcome'.kind = "needs_clarification"
    /\ outcome'.text \in {RephraseQuestion, StuckQuestion}

NoGenerationAfterAbort ==
    pc \in {"failed", "replied"} => gen_calls' = gen_calls /\ pc' \in {"failed", "replied"}

\* C1: for one user message generate_query is called at most max_attempts
\* times and the attempt counter stays between 1 and max_attempts.
C1_AttemptsBounded ==
    /\ gen_calls <= retry_context.max_attempts
    /\ retry_context.attempt >= 1
    /\ retry_context.attempt <= retry_context.max_attempts

C1_Witness ==
    /\ retry_context.max_attempts = MaxAttemptsBound
    /\ retry_context.attempt = retry_context.max_attempts
    /\ gen_calls = retry_context.max_attempts - 1
    /\ pc = "replied"

\* C2: a retryable validation error while attempts remain (that neither
\* repeats the previous error nor duplicates the previous failed query) makes
\* the loop go round again for a further generate_query call.
C2_RepromptsOnRetryableValidationError ==
    [][ ( /\ pc = "validating"
          /\ query_result.kind = "validation_failed"
          /\ IsRetryableError(query_result.validation_errors)
          /\ HasRetriesLeft(retry_context)
          /\ last_failure.cls = "none" )
        => pc' = "retrying" ]_vars

\* C3 as stated: an attempt that fails with the previous failed attempt's
\* error, or whose query equals the previous failed query, ends the loop with
\* a needs_clarification result.
C3_RepeatAbortsWithClarification ==
    [][ ( \/ (ExceptionFailStep \/ ValidationFailStep) /\ RepeatsPreviousError
          \/ (pc \in {"validating", "executing"} /\ pc' # pc /\ DuplicatesPreviousQuery) )
        => AbortsWithClarification ]_vars

\* C3 amended: a validation failure that repeats the previous error or
\* duplicates the previous failed query ends the loop with a
\* needs_clarification result asking to rephrase; an exception that repeats
\* the previous error ends it by being re-raised; nothing is generated after.
C3_RepeatAborts ==
    /\ [][ (ValidationFailStep /\ (RepeatsPreviousError \/ DuplicatesPreviousQuery))
           => AbortsWithClarification ]_vars
    /\ [][ (ExceptionFailStep /\ RepeatsPreviousError)
           => (pc' = "failed" /\ outcome'.kind = "raised") ]_vars
    /\ [][ NoGenerationAfterAbort ]_vars

C3_Witness ==
    /\ pc = "failed"
    /\ last_failure.cls = "validation"
    /\ Len(retry_context.validation_errors) = 2
    /\ ~IsRepeatedError(retry_context)
    /\ NormalizeQuery(retry_context.last_query) = <<"{", " ", "a", "}">>
    /\ outcome.kind = "needs_clarification"
    /\ outcome.text = StuckQuestion

\* the attempts are used up: the loop was left by its guard
AttemptsExhausted ==
    /\ pc \in {"failed", "replied"}
    /\ retry_context.attempt >= retry_context.max_attempts

\* C4 as stated: exhausted attempts give a needs_clarification result, which
\* handle_message sends as a clarification question.
C4_ExhaustedNeedsClarification ==
    AttemptsExhausted =>
        /\ outcome.kind = "needs_clarification"
        /\ pc = "replied" => reply = "clarification"

\* C4 amended: exhausted attempts give the result {'error': text asking to
\* rephrase}, and handle_message sends that text as an error reply.
C4_ExhaustedGivesError ==
    AttemptsExhausted =>
        /\ outcome.kind = "error"
        /\ outcome.text = ExhaustedText
        /\ pc = "replied" => reply = "error"

C4_Witness ==
    /\ AttemptsExhausted
    /\ gen_calls >= 1
    /\ pc = "replied"
    /\ reply = "error"

\* a failure that is an authentication/authorization, network/connection or
\* timeout error (and no field, argument or type mismatch)
IsFatalFailure(f) ==
    /\ f.cls # "none"
    /\ ~ \E p \in RetryablePatterns : ContainsLower(f.error, p)
    /\ \/ f.cls = "TimeoutError"
       \/ \E p \in NonRetryablePatterns : ContainsLower(f.error, p)

\* C5: after a fatal failure (auth, network/connection, timeout) no further
\* generation attempt is made: the loop is over and the failure is reported.
C5_FatalStopsTheLoop ==
    IsFatalFailure(last_failure) => pc \in {"failed", "replied"}

\* C6: every run ends in succeeded or failed, and every pass through
\* retrying increases the attempt counter.
C6_TerminatesAndAdvances ==
    /\ <>(pc \in {"succeeded", "failed"})
    /\ [][ pc' = "retrying" => retry_context'.attempt = retry_context.attempt + 1 ]_vars
    /\ [][ pc = "retrying" => pc' \in {"generating", "failed"} ]_vars

C6_Witness ==
    /\ pc = "succeeded"
    /\ retry_context.attempt > 1

(***************************************************************************)
(* main.py: main()                                                         *)
(***************************************************************************)
MaxInbox == 2

\* the archived pipeline is not wired into the bot: its state stays as built
RetryNotStarted ==
    /\ retry_context = CreateContext(2)
    /\ pc = "start"
    /\ query_result = NoResult
    /\ gen_calls = 0
    /\ gen_context = [given |-> FALSE, validation_error |-> NoError, failed_query |-> NoQuery]
    /\ outcome = NoOutcome
    /\ last_failure = NoFailure
    /\ reply = "none"

\* the names each handler module defines at import
ModuleAttrs(module) ==
    CASE module = "commands" ->
             {"get_main_keyboard", "get_login_keyboard", "start", "help_command",
              "logout", "menu", "timezone_command", "stats"}
      [] module = "ui_commands" ->
             {"get_user_client", "require_auth", "session", "skills", "schedule",
              "notes_command", "stats_command"}
      [] module = "file_handlers" ->
             {"upload_file_handler", "list_files_command", "download_file_command",
              "files_command", "set_directory_command"}
      [] module = "callbacks" -> {"handle_callback"}
      [] module = "message_handlers" -> {"handle_message"}
      [] module = "application" -> {"add_handler", "run_polling"}
      [] OTHER -> {}

\* the statements of main() after the application is built, in order
MainStatements ==
    << [filter |-> "/start",    module |-> "commands",         attr |-> "start"],
       [filter |-> "/help",     module |-> "commands",         attr |-> "help_command"],
       [filter |-> "/link",     module |-> "commands",         attr |-> "link"],
       [filter |-> "/logout",   module |-> "commands",         attr |-> "logout"],
       [filter |-> "/session",  module |-> "ui_commands",      attr |-> "session"],
       [filter |-> "/skills",   module |-> "ui_commands",      attr |-> "skills"],
       [filter |-> "/schedule", module |-> "ui_commands",      attr |-> "schedule"],
       [filter |-> "/notes",    module |-> "ui_commands",      attr |-> "notes_command"],
       [filter |-> "/stats",    module |-> "ui_commands",      attr |-> "stats_command"],
       [filter |-> "/files",    module |-> "file_handlers",    attr |-> "files_command"],
       [filter |-> "/cd",       module |-> "file_handlers",    attr |-> "set_directory_command"],
       [filter |-> "callback",  module |-> "callbacks",        attr |-> "handle_callback"],
       [filter |-> "document",  module |-> "file_handlers",    attr |-> "upload_file_handler"],
       [filter |-> "photo",     module |-> "file_handlers",    attr |-> "upload_file_handler"],
       [filter |-> "text",      module |-> "message_handlers", attr |-> "handle_message"],
       [filter |-> "",          module |-> "application",      attr |-> "run_polling"] >>

\* the commands a user can type to the bot
UserCommands ==
    {"/start", "/help", "/session", "/schedule", "/notes", "/stats", "/files", "/cd",
     "/logout", "/link"}

\* the application as main() leaves it when every statement has run
MainPolling ==
    [pc |-> "polling", next |-> Len(MainStatements), token_set |-> TRUE,
     handlers |-> { MainStatements[i].filter : i \in 1..(Len(MainStatements) - 1) }]

InitMain ==
    /\ RetryNotStarted
    /\ BotAtRest
    /\ ClientAtRest
    /\ BackendAtRest
    /\ UploadAtRest
    /\ \E token_set \in BOOLEAN :
           main = [pc |-> "config", next |-> 1, token_set |-> token_set, handlers |-> {}]

\* if not Config.TELEGRAM_BOT_TOKEN: raise ValueError; else build the application
MainValidateConfig ==
    /\ main.pc = "config"
    /\ main' = [main EXCEPT !.pc = IF main.token_set THEN "registering" ELSE "raised"]
    /\ UNCHANGED <<user_data, active_users, task, last_run, poller, inbox>>
    /\ UNCHANGED <<retryVars, clientVars, backendVars, uploadVars>>

\* the next statement of main(): application.add_handler(...(module.attr)), or
\* application.run_polling(); looking up a name a module lacks raises AttributeError
MainStatement ==
    /\ main.pc = "registering"
    /\ LET st == MainStatements[main.next]
       IN  main' = IF st.attr \notin ModuleAttrs(st.module)
                   THEN [main EXCEPT !.pc = "raised"]
                   ELSE IF st.attr = "run_polling"
                   THEN [main EXCEPT !.pc = "polling"]
                   ELSE [main EXCEPT !.next = @ + 1, !.handlers = @ \cup {st.filter}]
    /\ UNCHANGED <<user_data, active_users, task, last_run, poller, inbox>>
    /\ UNCHANGED <<retryVars, clientVars, backendVars, uploadVars>>

\* a user types a command: Telegram holds it until the bot asks for updates
UserSends(command) ==
    /\ Len(inbox) < MaxInbox
    /\ inbox' = Append(inbox, command)
    /\ UNCHANGED <<user_data, active_users, task, last_run, poller, main>>
    /\ UNCHANGED <<retryVars, clientVars, backendVars, uploadVars>>

NextMain ==
    \/ MainValidateConfig
    \/ MainStatement
    \/ \E command \in UserCommands : UserSends(command)

SpecMain == InitMain /\ [][NextMain]_vars

\* main() has returned control: it raised, or it sits in run_polling
MainEnded == main.pc \in {"raised", "polling"}

\* C9: started with a bot token, main() registers a handler for each of /start,
\* /help, /session, /schedule, /notes, /stats, /files, /cd, /logout and /link and
\* then polls, so every command a user has sent finds a registered handler
C9_CommandsRegisteredThenPolling ==
    (main.token_set /\ MainEnded) =>
        /\ main.pc = "polling"
        /\ UserCommands \subseteq main.handlers
        /\ \A i \in 1..Len(inbox) : inbox[i] \in main.handlers

(***************************************************************************)
(* context.user_data and bot_data['active_users'] as dicts                 *)
(***************************************************************************)
\* d[k] = v
Put(d, k, v) == [x \in DOMAIN d \cup {k} |-> IF x = k THEN v ELSE d[x]]

\* d.pop(k, None) and del d[k]
Pop(d, k) == [x \in DOMAIN d \ {k} |-> d[x]]

\* d.get(k) is truthy, for a key that holds a non-empty string or an object
Has(d, k) == k \in DOMAIN d

\* d.get(k) is truthy, for a key that holds True or False
Flag(d, k) == k \in DOMAIN d /\ d[k] = TRUE

ClearUserDataTokenOnly(d) == Pop(d, "auth_token")

\* context.user_data.clear()
ClearUserData(d) == EmptyDict

\* the keys of active_users
ActiveIds(users) == { users[i].telegram_id : i \in 1..Len(users) }

\* active_users[telegram_id] = entry
SetActiveUser(users, telegram_id, entry) ==
    IF telegram_id \in ActiveIds(users)
    THEN [i \in 1..Len(users) |->
            IF users[i].telegram_id = telegram_id
            THEN [telegram_id |-> telegram_id, entry |-> entry]
            ELSE users[i]]
    ELSE Append(users, [telegram_id |-> telegram_id, entry |-> entry])

\* if telegram_id in active_users: del active_users[telegram_id]
ForgetActiveUser(users, telegram_id) ==
    LET Others(item) == item.telegram_id # telegram_id
    IN  SelectSeq(users, Others)

\* the record a finished handler leaves: the message it sent last (or tried to),
\* the GraphQL call of it that failed (0: none), and how it ended: "returned",
\* "raised" (a Telegram call raised out of it) or "propagated" (the exception
\* of a GraphQL call left the handler)
Ran(u, handler, failed, message, delivered) ==
    [failed |-> failed, reply |-> message,
     result |-> IF delivered THEN "returned" ELSE "raised"]

(***************************************************************************)
(* handlers/commands.py                                                    *)
(***************************************************************************)
\* /start: `delivered` is whether the reply reached Telegram or raised
Start(u) ==
    /\ task = Idle
    /\ \E delivered \in BOOLEAN :
         IF Has(user_data[u], "auth_token")
         THEN /\ last_run' = Ran(u, "start", 0, "welcome_back", delivered)
              /\ UNCHANGED user_data
         ELSE /\ last_run' = Ran(u, "start", 0, "login_prompt", delivered)
              /\ user_data' =
                     IF delivered
                     THEN [user_data EXCEPT ![u] = Put(@, "awaiting_email", TRUE)]
                     ELSE user_data
    /\ UNCHANGED <<active_users, task, poller, main, inbox>>
    /\ UNCHANGED <<retryVars, clientVars, backendVars, uploadVars>>

\* /help
HelpCommand(u) ==
    /\ task = Idle
    /\ \E delivered \in BOOLEAN : last_run' = Ran(u, "help_command", 0, "help", delivered)
    /\ UNCHANGED <<user_data, active_users, task, poller, main, inbox>>
    /\ UNCHANGED <<retryVars, clientVars, backendVars, uploadVars>>

\* /logout that takes every chat for logged in
NotLoggedInNever(d) == FALSE

\* the test /logout opens with: not context.user_data.get('auth_token')
NotLoggedIn(d) == ~Has(d, "auth_token")

\* /logout
Logout(u) ==
    /\ task = Idle
    /\ \E delivered \in BOOLEAN :
         IF NotLoggedIn(user_data[u])
         THEN /\ last_run' = Ran(u, "logout", 0, "not_logged_in", delivered)
              /\ UNCHANGED <<user_data, active_users>>
         ELSE /\ active_users' = ForgetActiveUser(active_users, u)
              /\ user_data' = [user_data EXCEPT ![u] = ClearUserData(@)]
              /\ last_run' = Ran(u, "logout", 0, "logged_out", delivered)
    /\ UNCHANGED <<task, poller, main, inbox>>
    /\ UNCHANGED <<retryVars, clientVars, backendVars, uploadVars>>

(***************************************************************************)
(* handlers/file_handlers.py: /cd                                          *)
(***************************************************************************)
\* ' '.join(context.args) of the /cd and /files updates; << >> is no argument
DirectoryArguments ==
    { << >>, <<"d">>, <<"/", "d", "/">>, <<"/", "/">> }

RECURSIVE RStripSlash(_)
\* directory.rstrip('/')
RStripSlash(s) ==
    IF s # << >> /\ s[Len(s)] = "/" THEN RStripSlash(SubSeq(s, 1, Len(s) - 1)) ELSE s

\* the normalisation of a directory path in the file handlers
NormalizeDirectory(directory) ==
    LET rooted == IF directory # << >> /\ Head(directory) = "/"
                  THEN directory
                  ELSE <<"/">> \o directory
    IN  IF rooted # <<"/">> /\ rooted[Len(rooted)] = "/"
        THEN RStripSlash(rooted)
        ELSE rooted

\* /cd [directory]
SetDirectoryCommand(u, args) ==
    /\ task = Idle
    /\ \E delivered \in BOOLEAN :
         IF ~Has(user_data[u], "auth_token")
         THEN /\ last_run' = Ran(u, "set_directory_command", 0, "login_required", delivered)
              /\ UNCHANGED user_data
         ELSE IF args = << >>
         THEN /\ last_run' = Ran(u, "set_directory_command", 0, "current_directory", delivered)
              /\ UNCHANGED user_data
         ELSE /\ user_data' = [user_data EXCEPT
                                 ![u] = Put(@, "current_directory", NormalizeDirectory(args))]
              /\ last_run' = Ran(u, "set_directory_command", 0, "directory_changed", delivered)
    /\ UNCHANGED <<active_users, task, poller, main, inbox>>
    /\ UNCHANGED <<retryVars, clientVars, backendVars, uploadVars>>

(***************************************************************************)
(* handlers/message_handlers.py: the login flow                            *)
(***************************************************************************)
\* texts a user sends while the bot waits for an email address
EmailTexts ==
    { <<"a", "@", "b", ".", "c">>, <<" ", "a", "@", "b", ".", "c">>, <<"a", "@", "b">>,
      <<"h", "i">> }

\* `c in s`
Contains(s, c) == \E i \in 1..Len(s) : s[i] = c

\* what GraphQLClient.login returns
AuthPayloads ==
    { [token |-> "jwt", user |-> [id |-> "uuid", email |-> "a@b.c", name |-> "User"]] }

\* handle_message with the login flow looked at after the client check
TextRouteClientFirst(d) ==
    IF ~Has(d, "gql_client") THEN "handle_message"
    ELSE IF Flag(d, "awaiting_email") THEN "process_email"
    ELSE IF Flag(d, "awaiting_password") THEN "process_password"
    ELSE "handle_message"

\* where handle_message takes a text: the login flow first, then the rest
TextRoute(d) ==
    IF Flag(d, "awaiting_email") THEN "process_email"
    ELSE IF Flag(d, "awaiting_password") THEN "process_password"
    ELSE "handle_message"

\* handle_message with awaiting_email set: process_email
ProcessEmail(u, text) ==
    /\ task = Idle
    /\ TextRoute(user_data[u]) = "process_email"
    /\ LET email == RStrip(LStrip(text))
       IN  \E delivered \in BOOLEAN :
             IF ~Contains(email, "@") \/ ~Contains(email, ".")
             THEN /\ last_run' = Ran(u, "process_email", 0, "invalid_email", delivered)
                  /\ UNCHANGED user_data
             ELSE /\ user_data' =
                        [user_data EXCEPT
                           ![u] = Put(Put(Put(@, "login_email", email),
                                          "awaiting_email", FALSE),
                                      "awaiting_password", TRUE)]
                  /\ last_run' = Ran(u, "process_email", 0, "send_password", delivered)
    /\ UNCHANGED <<active_users, task, poller, main, inbox>>
    /\ UNCHANGED <<retryVars, clientVars, backendVars, uploadVars>>

\* process_password that goes to the login without deleting the message
PasswordReceivedNoDelete(u) ==
    /\ task = Idle
    /\ TextRoute(user_data[u]) = "process_password"
    /\ task' = [Idle EXCEPT !.user = u, !.handler = "process_password", !.pc = "login"]
    /\ UNCHANGED <<user_data, active_users, last_run, poller, main, inbox>>
    /\ UNCHANGED <<retryVars, clientVars, backendVars, uploadVars>>

\* handle_message with awaiting_password set: process_password up to its first
\* await, the deletion of the message that holds the password
PasswordReceived(u) ==
    /\ task = Idle
    /\ TextRoute(user_data[u]) = "process_password"
    /\ task' = [Idle EXCEPT !.user = u, !.handler = "process_password", !.pc = "delete"]
    /\ UNCHANGED <<user_data, active_users, last_run, poller, main, inbox>>
    /\ UNCHANGED <<retryVars, clientVars, backendVars, uploadVars>>

\* the deletion returns or raises (the handler ignores which); without a stored
\* email the handler replies, clears the data and returns, else it calls login
PasswordDeleted ==
    /\ task.handler = "process_password"
    /\ task.pc = "delete"
    /\ LET u == task.user
       IN  IF Has(user_data[u], "login_email")
           THEN /\ task' = [task EXCEPT !.pc = "login"]
                /\ UNCHANGED <<user_data, last_run>>
           ELSE \E delivered \in BOOLEAN :
                  /\ task' = Idle
                  /\ last_run' = Ran(u, "process_password", 0, "email_not_found", delivered)
                  /\ user_data' = IF delivered
                                  THEN [user_data EXCEPT ![u] = ClearUserData(@)]
                                  ELSE user_data
    /\ UNCHANGED <<active_users, poller, main, inbox>>
    /\ UNCHANGED <<retryVars, clientVars, backendVars, uploadVars>>

\* user_data after a login that returned `payload`
StoreLogin(d, payload) ==
    LET with_user == Put(Put(Put(Put(d, "auth_token", payload.token),
                                 "user_id", payload.user.id),
                             "user_email", payload.user.email),
                         "user_name", payload.user.name)
        popped    == Pop(Pop(with_user, "login_email"), "awaiting_password")
    IN  Put(popped, "gql_client", [token |-> payload.token])

\* the entry process_password stores in active_users
ActiveUserEntry(payload) ==
    [gql_client |-> [token |-> payload.token], user_id |-> payload.user.id,
     name |-> payload.user.name]

\* await login_client.login(email, password) returns
LoginReturns ==
    /\ task.handler = "process_password"
    /\ task.pc = "login"
    /\ \E payload \in AuthPayloads :
         /\ user_data' = [user_data EXCEPT ![task.user] = StoreLogin(@, payload)]
         /\ active_users' = SetActiveUser(active_users, task.user, ActiveUserEntry(payload))
    /\ task' = [task EXCEPT !.pc = "confirm"]
    /\ UNCHANGED <<last_run, poller, main, inbox>>
    /\ UNCHANGED <<retryVars, clientVars, backendVars, uploadVars>>

\* await login_client.login(email, password) raises: the except branch up to
\* its await
LoginRaises ==
    /\ task.handler = "process_password"
    /\ task.pc = "login"
    /\ user_data' = [user_data EXCEPT ![task.user] = ClearUserData(@)]
    /\ task' = [task EXCEPT !.pc = "failure_notice", !.failed = 1]
    /\ UNCHANGED <<active_users, last_run, poller, main, inbox>>
    /\ UNCHANGED <<retryVars, clientVars, backendVars, uploadVars>>

\* the send of the login confirmation returns, or raises into the except branch
LoginConfirmed ==
    /\ task.handler = "process_password"
    /\ task.pc = "confirm"
    /\ \E delivered \in BOOLEAN :
         IF delivered
         THEN /\ task' = Idle
              /\ last_run' = Ran(task.user, "process_password", 0, "login_successful", TRUE)
              /\ UNCHANGED user_data
         ELSE /\ task' = [task EXCEPT !.pc = "failure_notice"]
              /\ user_data' = [user_data EXCEPT ![task.user] = ClearUserData(@)]
              /\ UNCHANGED last_run
    /\ UNCHANGED <<active_users, poller, main, inbox>>
    /\ UNCHANGED <<retryVars, clientVars, backendVars, uploadVars>>

\* the send of the "Login Failed" message returns or raises
LoginFailureNotified ==
    /\ task.handler = "process_password"
    /\ task.pc = "failure_notice"
    /\ \E delivered \in BOOLEAN :
         last_run' = Ran(task.user, "process_password", task.failed, "error", delivered)
    /\ task' = Idle
    /\ UNCHANGED <<user_data, active_users, poller, main, inbox>>
    /\ UNCHANGED <<retryVars, clientVars, backendVars, uploadVars>>

(***************************************************************************)
(* handlers/notifications.py: the notification loop                        *)
(***************************************************************************)
\* notifications the backend can report as pending
Notifications ==
    { [id |-> "n1", channel |-> "telegram", notificationType |-> "event"],
      [id |-> "n2", channel |-> "telegram", notificationType |-> "custom"],
      [id |-> "n3", channel |-> "email",    notificationType |-> "custom"] }

MaxPending == 2

\* the answers to pendingNotifications: lists without a repeated notification
PendingLists ==
    { list \in UNION { [1..n -> Notifications] : n \in 0..MaxPending } :
        \A i, j \in 1..Len(list) : i # j => list[i] # list[j] }

RECURSIVE SkipOtherChannels(_)
\* if notif['channel'] != 'telegram': continue
SkipOtherChannels(notifs) ==
    IF notifs # << >> /\ Head(notifs).channel # "telegram"
    THEN SkipOtherChannels(Tail(notifs))
    ELSE notifs

\* the loop over the snapshot moves on to its next user, or the check returns
\* and start_notification_loop sleeps for the interval
PollNextUser ==
    LET rest == Tail(poller.queue)
    IN  [pc |-> IF rest = << >> THEN "sleep" ELSE "query", queue |-> rest, notifs |-> << >>,
         sent |-> "none"]

\* the loop over the notifications of one user reaches `notifs`: the first await
\* is the backend query of format_notification_message for an event or a
\* reminder, and bot.send_message for any other type
PollNotifications(notifs) ==
    LET telegram == SkipOtherChannels(notifs)
    IN  IF telegram = << >>
        THEN PollNextUser
        ELSE [poller EXCEPT
                !.notifs = telegram,
                !.sent = "none",
                !.pc = IF Head(telegram).notificationType = "custom"
                       THEN "send" ELSE "format"]

\* asyncio.sleep(interval) is over: check_and_send_notifications up to its
\* first await, over list(active_users.items())
PollWake ==
    /\ poller.pc = "sleep"
    /\ poller' = IF active_users = << >>
                 THEN poller
                 ELSE [pc |-> "query", queue |-> active_users, notifs |-> << >>,
                       sent |-> "none"]
    /\ UNCHANGED <<user_data, active_users, task, last_run, main, inbox>>
    /\ UNCHANGED <<retryVars, clientVars, backendVars, uploadVars>>

\* await gql_client.execute(pendingNotifications) returns
PollQueryReturns ==
    /\ poller.pc = "query"
    /\ \E notifications \in PendingLists :
         /\ \A i \in 1..Len(notifications) : notifications[i].id \notin marked
         /\ poller' = PollNotifications(notifications)
    /\ UNCHANGED <<user_data, active_users, task, last_run, main, inbox>>
    /\ UNCHANGED <<retryVars, clientVars, backendVars, uploadVars>>

\* await gql_client.execute(pendingNotifications) raises: logged, next user
PollQueryRaises ==
    /\ poller.pc = "query"
    /\ poller' = PollNextUser
    /\ UNCHANGED <<user_data, active_users, task, last_run, main, inbox>>
    /\ UNCHANGED <<retryVars, clientVars, backendVars, uploadVars>>

\* the backend query of format_notification_message returns, or raises out of
\* the loop over this user's notifications
PollFormatted ==
    /\ poller.pc = "format"
    /\ \E returned \in BOOLEAN :
         poller' = IF returned THEN [poller EXCEPT !.pc = "send"] ELSE PollNextUser
    /\ UNCHANGED <<user_data, active_users, task, last_run, main, inbox>>
    /\ UNCHANGED <<retryVars, clientVars, backendVars, uploadVars>>

\* a loop that goes on to markNotificationSent whatever the send did
AfterSendMarksAnyway(delivered) == "mark"

\* where the loop goes after bot.send_message: on to markNotificationSent in
\* the try block, or through except TelegramError to the sleep
AfterSend(delivered) == IF delivered THEN "mark" ELSE "pause"

\* await bot.send_message(chat_id=telegram_id, ...) returns, or raises a
\* TelegramError, which is logged; `sent` keeps which of the two it was
PollSent ==
    /\ poller.pc = "send"
    /\ \E delivered \in BOOLEAN :
         /\ poller' = [poller EXCEPT !.pc = AfterSend(delivered),
                                     !.sent = IF delivered THEN "ok" ELSE "failed"]
         /\ chat_messages' =
                IF delivered
                THEN chat_messages \cup {Head(poller.notifs).id}
                ELSE chat_messages
    /\ UNCHANGED <<user_data, active_users, task, last_run, main, inbox, marked>>
    /\ UNCHANGED <<retryVars, clientVars, uploadVars>>

\* await gql_client.execute(markNotificationSent) returns, or raises out of the
\* loop over this user's notifications; a mutation that raised at the client
\* was applied by the backend or was not
PollMarked ==
    /\ poller.pc = "mark"
    /\ LET applied == marked \cup {Head(poller.notifs).id}
       IN  \/ /\ poller' = [poller EXCEPT !.pc = "pause"]
               /\ marked' = applied
           \/ /\ poller' = PollNextUser
               /\ marked' \in {marked, applied}
    /\ UNCHANGED <<user_data, active_users, task, last_run, main, inbox, chat_messages>>
    /\ UNCHANGED <<retryVars, clientVars, uploadVars>>

\* asyncio.sleep(0.1) is over: the next notification of this user
PollPaused ==
    /\ poller.pc = "pause"
    /\ poller' = PollNotifications(Tail(poller.notifs))
    /\ UNCHANGED <<user_data, active_users, task, last_run, main, inbox>>
    /\ UNCHANGED <<retryVars, clientVars, backendVars, uploadVars>>

\* post_init has run and the application polls for updates
InitBot ==
    /\ RetryNotStarted
    /\ BotAtRest
    /\ ClientAtRest
    /\ BackendAtRest
    /\ UploadAtRest
    /\ main = MainPolling

\* logins, logouts and the notification loop, interleaved at their awaits
NextNotify ==
    \/ \E u \in Users : Start(u)
    \/ \E u \in Users, text \in EmailTexts : ProcessEmail(u, text)
    \/ \E u \in Users : PasswordReceived(u)
    \/ PasswordDeleted
    \/ LoginReturns
    \/ LoginRaises
    \/ LoginConfirmed
    \/ LoginFailureNotified
    \/ \E u \in Users : Logout(u)
    \/ PollWake
    \/ PollQueryReturns
    \/ PollQueryRaises
    \/ PollFormatted
    \/ PollSent
    \/ PollMarked
    \/ PollPaused

SpecNotify == InitBot /\ [][NextNotify]_vars

\* the chat the loop is sending to
PollTarget == Head(poller.queue).telegram_id

\* the chat holds what a login stores and only /logout removes in full: its
\* token, or its entry in active_users
LoggedIn(u) == Has(user_data[u], "auth_token") \/ u \in ActiveIds(active_users)

\* C7: whenever the notification loop sends a notification message to a user,
\* that user is logged in at that moment, under every interleaving of logins,
\* logouts and polling cycles
C7_NotifiesLoggedInUsersOnly ==
    [][(poller.pc = "send" /\ poller'.pc = "mark") => LoggedIn(PollTarget)]_vars

(***************************************************************************)
(* The handlers that call the backend                                      *)
(***************************************************************************)
\* for each handler, its GraphQL calls in the order it awaits them; the entry
\* of a call is what the except clause around it does when the call raises:
\* "error_reply" sends an error message and ends the handler, "continue" logs
\* and goes on as if the call had returned
GraphQLCalls(handler) ==
    CASE handler \in {"session", "skills"}           -> <<"error_reply", "continue">>
      [] handler = "schedule"                        -> <<"error_reply">>
      [] handler = "notes_command"                   -> <<"error_reply">>
      [] handler = "stats_command"                   -> <<"error_reply", "error_reply">>
      [] handler = "files_command"                   -> <<"error_reply">>
      [] handler = "upload_file_handler"             -> <<"error_reply">>
      [] handler = "show_skill_selection"            -> <<"error_reply">>
      [] handler = "start_session_for_skill"         -> <<"error_reply", "error_reply">>
      [] handler = "pause_session"                   -> <<"error_reply">>
      [] handler = "resume_session"                  -> <<"error_reply">>
      [] handler = "stop_session"                    -> <<"error_reply">>
      [] handler = "handle_schedule_navigation"      -> <<"error_reply">>
      [] handler = "handle_stats_period"             -> <<"error_reply">>
      [] handler = "show_notes_list"                 -> <<"error_reply">>
      [] handler = "show_note_detail"                -> <<"error_reply">>
      [] handler = "delete_note"                     -> <<"error_reply">>
      [] handler = "show_event_detail"               -> <<"error_reply">>
      [] handler = "delete_event"                    -> <<"error_reply">>
      [] handler = "create_note_from_message"        -> <<"error_reply">>
      [] handler = "search_notes"                    -> <<"error_reply">>
      [] handler = "create_event_from_message"       -> <<"error_reply">>
      [] handler = "finalize_event_from_template"    -> <<"error_reply">>
      [] handler = "create_reminder_from_message"    -> <<"error_reply">>
      [] OTHER                                       -> << >>

OnFailureUncaught(handler, call) ==
    IF handler = "schedule" THEN "propagate" ELSE GraphQLCalls(handler)[call]

\* what the handler does when its call number `call` raises
OnFailure(handler, call) == GraphQLCalls(handler)[call]

\* the commands of ui_commands.py, each behind require_auth
UICommands == {"session", "skills", "schedule", "notes_command", "stats_command"}

\* callback data of the inline buttons, one per branch of handle_callback and
\* of handle_note_action / handle_event_action / create_event_from_template
CallbackData ==
    {"cancel", "start_session_menu", "start_skill:1", "quick_start:1", "pause_session:1",
     "resume_session:1", "stop_session:1", "schedule:next", "stats:week", "note:create",
     "note:list", "note:view:1", "note:delete:1", "note:search", "event:create",
     "event:templates", "event:template:meeting", "event:template:party",
     "event:view:1", "event:delete:1", "files_list:/"}

\* the function handle_callback routes the data to when that function calls
\* the backend, "" when the branch only edits the message
CallbackHandler(data) ==
    CASE data = "start_session_menu"               -> "show_skill_selection"
      [] data \in {"start_skill:1", "quick_start:1"} -> "start_session_for_skill"
      [] data = "pause_session:1"                  -> "pause_session"
      [] data = "resume_session:1"                 -> "resume_session"
      [] data = "stop_session:1"                   -> "stop_session"
      [] data = "schedule:next"                    -> "handle_schedule_navigation"
      [] data = "stats:week"                       -> "handle_stats_period"
      [] data = "note:list"                        -> "show_notes_list"
      [] data = "note:view:1"                      -> "show_note_detail"
      [] data = "note:delete:1"                    -> "delete_note"
      [] data = "event:view:1"                     -> "show_event_detail"
      [] data = "event:delete:1"                   -> "delete_event"
      [] OTHER                                     -> ""

\* the message a branch without a backend call edits into the chat
CallbackMessage(data) ==
    CASE data = "cancel"                 -> "cancelled"
      [] data = "note:create"            -> "send_note"
      [] data = "note:search"            -> "send_keywords"
      [] data = "event:create"           -> "send_event"
      [] data = "event:templates"        -> "templates"
      [] data = "event:template:meeting" -> "send_title"
      [] data = "event:template:party"   -> "invalid_template"
      [] OTHER                           -> "unknown_action"

\* what such a branch stores in user_data after its message went out
CallbackStores(d, data) ==
    CASE data = "note:create"  -> Put(d, "awaiting_note", TRUE)
      [] data = "note:search"  -> Put(d, "awaiting_note_search", TRUE)
      [] data = "event:create" -> Put(d, "awaiting_event", TRUE)
      [] data = "event:template:meeting" ->
             Put(Put(d, "event_template", [title |-> "Team Meeting", type |-> "MEETING"]),
                 "awaiting_event_title", TRUE)
      [] OTHER -> d

\* the pending-input flags handle_message tests, in its order, with the
\* function each one selects
TextFlags ==
    << [flag |-> "awaiting_note",        handler |-> "create_note_from_message"],
       [flag |-> "awaiting_note_search", handler |-> "search_notes"],
       [flag |-> "awaiting_event",       handler |-> "create_event_from_message"],
       [flag |-> "awaiting_event_title", handler |-> "finalize_event_from_template"],
       [flag |-> "awaiting_reminder",    handler |-> "create_reminder_from_message"] >>

\* the index of the first flag that is set, 0 when none is
FirstFlag(d) ==
    LET set == { i \in 1..Len(TextFlags) : Flag(d, TextFlags[i].flag) }
    IN  IF set = {} THEN 0 ELSE CHOOSE i \in set : \A j \in set : i <= j

\* user_data after handle_message got control back from `handler`:
\* user_data[flag] = False
AfterReturn(handler, d) ==
    LET own == { i \in 1..Len(TextFlags) : TextFlags[i].handler = handler }
    IN  IF own = {} THEN d ELSE Put(d, TextFlags[CHOOSE i \in own : TRUE].flag, FALSE)

\* a handler in flight starts its first backend call
Calling(u, handler, arg) ==
    [user |-> u, handler |-> handler, pc |-> "call", call |-> 1, failed |-> 0, arg |-> arg]

\* the handler sends `message` as its last act, from user_data `d`
EndHandler(d, failed, message, delivered) ==
    /\ task' = Idle
    /\ user_data' = [user_data EXCEPT
                       ![task.user] = IF delivered THEN AfterReturn(task.handler, d) ELSE d]
    /\ last_run' = Ran(task.user, task.handler, failed, message, delivered)

\* /session, /skills, /schedule, /notes, /stats up to the first backend call
UICommand(u, handler) ==
    /\ task = Idle
    /\ IF ~Has(user_data[u], "auth_token")
       THEN /\ \E delivered \in BOOLEAN :
                 last_run' = Ran(u, handler, 0, "login_required", delivered)
            /\ UNCHANGED task
       ELSE IF ~Has(user_data[u], "gql_client")
       THEN /\ \E delivered \in BOOLEAN :
                 last_run' = Ran(u, handler, 0, "authentication_issue", delivered)
            /\ UNCHANGED task
       ELSE /\ task' = Calling(u, handler, << >>)
            /\ UNCHANGED last_run
    /\ UNCHANGED <<user_data, active_users, poller, main, inbox>>
    /\ UNCHANGED <<retryVars, clientVars, backendVars, uploadVars>>

\* /files [directory]: files_command and list_files_command up to the query
FilesCommand(u, args) ==
    /\ task = Idle
    /\ IF ~Has(user_data[u], "auth_token")
       THEN /\ \E delivered \in BOOLEAN :
                 last_run' = Ran(u, "files_command", 0, "login_required", delivered)
            /\ UNCHANGED <<task, user_data>>
       ELSE LET d == Put(user_data[u], "current_directory", <<"/">>)
                directory == IF args # << >> THEN args ELSE d["current_directory"]
            IN  /\ user_data' = [user_data EXCEPT ![u] = d]
                /\ IF ~Has(d, "gql_client")
                   THEN /\ \E delivered \in BOOLEAN :
                             last_run' = Ran(u, "files_command", 0, "client_not_initialized",
                                             delivered)
                        /\ UNCHANGED task
                   ELSE /\ task' = Calling(u, "files_command", NormalizeDirectory(directory))
                        /\ UNCHANGED last_run
    /\ UNCHANGED <<active_users, poller, main, inbox>>
    /\ UNCHANGED <<retryVars, clientVars, backendVars, uploadVars>>

\* a press of an inline button: handle_callback up to the first backend call
\* of the function it routes to, or to the end of a branch that makes none
Callback(u, data) ==
    /\ task = Idle
    /\ \E answered \in BOOLEAN, delivered \in BOOLEAN :
         IF ~answered
         THEN /\ last_run' = Ran(u, "handle_callback", 0, "none", FALSE)
              /\ UNCHANGED <<task, user_data>>
         ELSE IF ~Has(user_data[u], "auth_token")
         THEN /\ last_run' = Ran(u, "handle_callback", 0, "session_expired", delivered)
              /\ UNCHANGED <<task, user_data>>
         ELSE IF ~Has(user_data[u], "gql_client")
         THEN /\ last_run' = Ran(u, "handle_callback", 0, "authentication_error", delivered)
              /\ UNCHANGED <<task, user_data>>
         ELSE IF CallbackHandler(data) # ""
         THEN /\ task' = Calling(u, CallbackHandler(data), << >>)
              /\ UNCHANGED <<last_run, user_data>>
         ELSE /\ last_run' = Ran(u, "handle_callback", 0, CallbackMessage(data), delivered)
              /\ user_data' = IF delivered
                              THEN [user_data EXCEPT ![u] = CallbackStores(@, data)]
                              ELSE user_data
              /\ UNCHANGED task
    /\ UNCHANGED <<active_users, poller, main, inbox>>
    /\ UNCHANGED <<retryVars, clientVars, backendVars, uploadVars>>

\* a text message outside the login flow: handle_message up to the first
\* backend call; `well_formed` is whether the text parses as the input asked for
TextMessage(u, well_formed) ==
    /\ task = Idle
    /\ TextRoute(user_data[u]) = "handle_message"
    /\ LET d     == user_data[u]
           first == FirstFlag(d)
           handler == IF first = 0 THEN "handle_message" ELSE TextFlags[first].handler
           early ==
               IF handler \in {"create_note_from_message", "create_event_from_message"}
                  /\ ~well_formed
               THEN "invalid_format"
               ELSE IF handler = "finalize_event_from_template" /\ ~Has(d, "event_template")
               THEN "template_expired"
               ELSE ""
       IN  IF ~Has(d, "gql_client")
           THEN /\ \E delivered \in BOOLEAN :
                     last_run' = Ran(u, "handle_message", 0, "login_required", delivered)
                /\ UNCHANGED <<task, user_data>>
           ELSE IF first = 0
           THEN /\ \E delivered \in BOOLEAN :
                     last_run' = Ran(u, "handle_message", 0, "quick_commands", delivered)
                /\ UNCHANGED <<task, user_data>>
           ELSE IF early # ""
           THEN /\ \E delivered \in BOOLEAN :
                     /\ last_run' = Ran(u, handler, 0, early, delivered)
                     /\ user_data' = IF delivered
                                     THEN [user_data EXCEPT ![u] = AfterReturn(handler, d)]
                                     ELSE user_data
                /\ UNCHANGED task
           ELSE /\ task' = Calling(u, handler, << >>)
                /\ UNCHANGED <<last_run, user_data>>
    /\ UNCHANGED <<active_users, poller, main, inbox>>
    /\ UNCHANGED <<retryVars, clientVars, backendVars, uploadVars>>

\* the directory upload_file_handler records a file under when the caption
\* names none: user_data.get('current_directory', '/'), normalised
UploadDirectory(d) ==
    NormalizeDirectory(IF Has(d, "current_directory") THEN d["current_directory"]
                       ELSE <<"/">>)

\* a document or a photo whose caption names no directory: upload_file_handler
\* up to the createFile mutation; `fetched` is whether get_file() returned and
\* `stored` whether the file reached the storage (the steps UploadBegins to
\* DownloadReturns below), the except clause sending the error message if not
FileMessage(u) ==
    /\ task = Idle
    /\ IF ~Has(user_data[u], "auth_token")
       THEN /\ \E delivered \in BOOLEAN :
                 last_run' = Ran(u, "upload_file_handler", 0, "login_required", delivered)
            /\ UNCHANGED task
       ELSE IF ~Has(user_data[u], "gql_client")
       THEN /\ \E delivered \in BOOLEAN :
                 last_run' = Ran(u, "upload_file_handler", 0, "client_not_initialized",
                                 delivered)
            /\ UNCHANGED task
       ELSE \E fetched \in BOOLEAN, stored \in BOOLEAN, delivered \in BOOLEAN :
              IF fetched /\ stored
              THEN /\ task' = Calling(u, "upload_file_handler",
                                      UploadDirectory(user_data[u]))
                   /\ UNCHANGED last_run
              ELSE IF fetched
              THEN /\ last_run' = Ran(u, "upload_file_handler", 0, "error", delivered)
                   /\ UNCHANGED task
              ELSE /\ last_run' = Ran(u, "upload_file_handler", 0, "none", FALSE)
                   /\ UNCHANGED task
    /\ UNCHANGED <<user_data, active_users, poller, main, inbox>>
    /\ UNCHANGED <<retryVars, clientVars, backendVars, uploadVars>>

\* the rest of the try block after the last backend call: the handler stores
\* what it keeps and sends its view; a send that raises lands in the same
\* except clause, which sends the error message
SendView(failed) ==
    LET d    == user_data[task.user]
        kept == IF task.handler = "files_command"
                THEN Put(d, "current_directory", task.arg)
                ELSE d
        done == IF task.handler = "finalize_event_from_template"
                THEN Pop(kept, "event_template")
                ELSE kept
    IN  \E delivered \in BOOLEAN :
          IF delivered
          THEN EndHandler(done, failed, "view", TRUE)
          ELSE \E error_delivered \in BOOLEAN :
                 EndHandler(kept, failed, "error", error_delivered)

\* the handler goes on after its call number task.call
AfterCall(failed) ==
    IF task.call < Len(GraphQLCalls(task.handler))
    THEN /\ task' = [task EXCEPT !.call = @ + 1, !.failed = failed]
         /\ UNCHANGED <<user_data, last_run>>
    ELSE SendView(failed)

\* await gql_client.execute(...) returns; after its first query
\* start_session_for_skill may find no skill, say so and return
GraphQLReturns ==
    /\ task.pc = "call"
    /\ \/ AfterCall(task.failed)
       \/ /\ task.handler = "start_session_for_skill"
          /\ task.call = 1
          /\ \E delivered \in BOOLEAN :
               EndHandler(user_data[task.user], task.failed, "view", delivered)
    /\ UNCHANGED <<active_users, poller, main, inbox>>
    /\ UNCHANGED <<retryVars, clientVars, backendVars, uploadVars>>

\* await gql_client.execute(...) raises
GraphQLRaises ==
    /\ task.pc = "call"
    /\ LET on_failure == OnFailure(task.handler, task.call)
       IN  CASE on_failure = "continue" -> AfterCall(task.call)
             [] on_failure = "error_reply" ->
                  \E delivered \in BOOLEAN :
                    EndHandler(user_data[task.user], task.call, "error", delivered)
             [] OTHER ->
                  /\ task' = Idle
                  /\ last_run' = [failed |-> task.call, reply |-> "none",
                                  result |-> "propagated"]
                  /\ UNCHANGED user_data
    /\ UNCHANGED <<active_users, poller, main, inbox>>
    /\ UNCHANGED <<retryVars, clientVars, backendVars, uploadVars>>

\* the chat whose updates the handlers are followed for: a handler reads and
\* writes the user_data of its own chat only
ChatUsers == {"u1"}

\* updates are handled one at a time (no concurrent_updates in main)
NextChat ==
    \/ \E u \in ChatUsers : Start(u)
    \/ \E u \in ChatUsers : HelpCommand(u)
    \/ \E u \in ChatUsers : Logout(u)
    \/ \E u \in ChatUsers, args \in DirectoryArguments : SetDirectoryCommand(u, args)
    \/ \E u \in ChatUsers, text \in EmailTexts : ProcessEmail(u, text)
    \/ \E u \in ChatUsers : PasswordReceived(u)
    \/ PasswordDeleted
    \/ LoginReturns
    \/ LoginRaises
    \/ LoginConfirmed
    \/ LoginFailureNotified
    \/ \E u \in ChatUsers, handler \in UICommands : UICommand(u, handler)
    \/ \E u \in ChatUsers, args \in DirectoryArguments : FilesCommand(u, args)
    \/ \E u \in ChatUsers, data \in CallbackData : Callback(u, data)
    \/ \E u \in ChatUsers, well_formed \in BOOLEAN : TextMessage(u, well_formed)
    \/ \E u \in ChatUsers : FileMessage(u)
    \/ GraphQLReturns
    \/ GraphQLRaises

SpecChat == InitBot /\ [][NextChat]_vars

\* a handler that was in flight ends with this step
HandlerEnds == task # Idle /\ task' = Idle

\* the one call whose failure the code answers by going on: the skills query,
\* second call of /session and of its alias /skills
IsSkillsQuery(handler, call) == handler \in {"session", "skills"} /\ call = 2

\* C8 as stated: whenever a GraphQL call of a command, callback, text-message
\* or file handler fails, the handler sends an error message to the chat and
\* returns without propagating the exception
C8_FailedCallGivesErrorMessage ==
    [][(HandlerEnds /\ last_run'.failed # 0) =>
           (last_run'.reply = "error" /\ last_run'.result # "propagated")]_vars

\* C8 as the code has it: a failed GraphQL call never propagates out of its
\* handler; the handler sends an error message for it, except for the skills
\* query of /session and /skills, after which it sends its normal view
C8_FailedCallIsCaught ==
    [][(HandlerEnds /\ last_run'.failed # 0) =>
           /\ last_run'.result # "propagated"
           /\ IF IsSkillsQuery(task.handler, last_run'.failed)
              THEN last_run'.reply \in {"view", "error"}
              ELSE last_run'.reply = "error"]_vars

\* a handler has just answered a failed call with its error message
C8_Witness ==
    /\ task = Idle
    /\ last_run = [failed |-> 1, reply |-> "error", result |-> "returned"]
    /\ Has(user_data["u1"], "auth_token")

\* C10: after /logout by a user who holds an auth token, the session data of
\* that chat is empty (no token, client, directory or pending-input flag) and
\* the user is not in active_users
C10_LogoutEmptiesSession ==
    [][\A u \in ChatUsers :
          (/\ task = Idle
           /\ task' = Idle
           /\ Has(user_data[u], "auth_token")
           /\ last_run'.reply = "logged_out")
          => (user_data'[u] = EmptyDict /\ u \notin ActiveIds(active_users'))]_vars

\* /logout has just answered a user who held a token
C10_Witness ==
    /\ task = Idle
    /\ last_run.reply = "logged_out"
    /\ user_data["u1"] = EmptyDict
    /\ "u1" \notin ActiveIds(active_users)

\* a handler that runs in one step ends with this step
RunsAtOnce == task = Idle /\ task' = Idle

\* /start ran in this step
StartRan == RunsAtOnce /\ last_run'.reply \in {"login_prompt", "welcome_back"}

\* C14: /start from a chat without a token sends the login prompt and leaves
\* the chat awaiting the e-mail, so that handle_message takes the next text to
\* process_email; /start from a chat with a token sends the welcome-back
\* message and changes no session state
C14_StartAsksForEmailOrWelcomesBack ==
    [][StartRan =>
          \A u \in ChatUsers :
             IF Has(user_data[u], "auth_token")
             THEN /\ last_run'.reply = "welcome_back"
                  /\ user_data' = user_data
                  /\ active_users' = active_users
             ELSE /\ last_run'.reply = "login_prompt"
                  /\ last_run'.result = "returned" =>
                        /\ Flag(user_data'[u], "awaiting_email")
                        /\ TextRoute(user_data'[u]) = "process_email"]_vars

\* /start sent the login prompt to a chat that was waiting for the password:
\* the next text goes to process_email all the same
C14_Witness ==
    /\ last_run.reply = "login_prompt"
    /\ last_run.result = "returned"
    /\ Flag(user_data["u1"], "awaiting_password")
    /\ TextRoute(user_data["u1"]) = "process_email"

\* /logout ran in this step
LogoutRan == RunsAtOnce /\ last_run'.reply \in {"not_logged_in", "logged_out"}

\* C15: /logout from a chat that holds no auth token only sends the 'not
\* logged in' message: the session data, pending login flags included, and
\* active_users stay as they were
C15_LogoutWithoutTokenChangesNothing ==
    [][LogoutRan =>
          \A u \in ChatUsers :
             ~Has(user_data[u], "auth_token") =>
                 /\ last_run'.reply = "not_logged_in"
                 /\ user_data' = user_data
                 /\ active_users' = active_users]_vars

\* /logout answered 'not logged in' to a chat in the middle of its login
C15_Witness ==
    /\ last_run.reply = "not_logged_in"
    /\ last_run.result = "returned"
    /\ Flag(user_data["u1"], "awaiting_password")
    /\ Has(user_data["u1"], "login_email")

\* a step of /files: files_command, and list_files_command when its query
\* has returned
FilesStep == task.handler = "files_command" \/ task'.handler = "files_command"

\* C16: the directory set by /cd stays the one uploads are recorded under
\* whatever /files commands are handled in between: no step of /files changes
\* the directory the next upload without a caption directory goes to
C16_FilesKeepsUploadDirectory ==
    [][FilesStep =>
          \A u \in ChatUsers :
             UploadDirectory(user_data'[u]) = UploadDirectory(user_data[u])]_vars

\* process_password issues the login request with this step
LoginIssued == task.pc # "login" /\ task'.pc = "login"

\* C17: the deletion of the message that holds the password is attempted
\* before the login request is issued, whether the login then returns or
\* raises: the request is issued only by the handler coming back from the
\* awaited delete()
C17_PasswordDeletedBeforeLogin ==
    [][LoginIssued =>
          /\ task.handler = "process_password"
          /\ task.pc = "delete"
          /\ task'.handler = "process_password"
          /\ task'.user = task.user]_vars

\* a login that raised, after the deletion was attempted
C17_Witness ==
    /\ task.handler = "process_password"
    /\ task.pc = "failure_notice"
    /\ task.failed = 1

\* a handler issues its next GraphQL operation with this step
HandlerIssues == task'.pc = "call" /\ (task.pc # "call" \/ task'.call # task.call)

\* the notification loop issues a GraphQL operation with this step:
\* pendingNotifications, the query of format_notification_message or
\* markNotificationSent
LoopIssues == poller' # poller /\ poller'.pc \in {"query", "format", "mark"}

\* C18: no GraphQL operation other than the login mutation is issued on behalf
\* of a user who holds no auth token: a handler issues one only for a chat
\* whose session data holds the token, and the notification loop only for a
\* user who is logged in
C18_NoOperationWithoutToken ==
    [][/\ HandlerIssues => Has(user_data'[task'.user], "auth_token")
       /\ LoopIssues => LoggedIn(Head(poller'.queue).telegram_id)]_vars

\* C19: once the /start, e-mail, password and /logout updates received so far
\* are handled, a user has an entry in active_users exactly when the session
\* data of that user's chat holds an auth token
C19_ActiveUsersIffToken ==
    task = Idle =>
        \A u \in Users :
            u \in ActiveIds(active_users) <=> Has(user_data[u], "auth_token")

\* the notification the loop is at
PollNotification == Head(poller.notifs)

\* what holds of the loop and of the backend in every state: the loop awaits
\* markNotificationSent only with a send that returned behind it, it is only
\* ever at a notification of the telegram channel, and no notification of
\* another channel is marked
MarkedOnlyWhenSent ==
    /\ poller.pc = "mark" => poller.sent = "ok"
    /\ poller.pc \in {"format", "send", "mark", "pause"} =>
           PollNotification.channel = "telegram"
    /\ \A n \in Notifications : n.channel # "telegram" => n.id \notin marked

\* what holds of every step: only the loop at markNotificationSent marks, and
\* only its notification; a send that raised leaves the notification unmarked
\* and the loop goes on from it without marking
FailedSendLeavesPending ==
    /\ marked' # marked =>
           /\ poller.pc = "mark"
           /\ marked' = marked \cup {PollNotification.id}
    /\ (poller.pc = "send" /\ poller'.sent = "failed") =>
           /\ poller'.pc = "pause"
           /\ PollNotification.id \notin marked'
    /\ (poller.pc = "pause" /\ poller.sent = "failed") =>
           /\ marked' = marked
           /\ PollNotification.id \notin marked'

\* C20: a notification is marked sent in the backend only after
\* bot.send_message for it returned successfully; when the send fails the
\* notification is not marked and so stays pending for the next polling
\* cycle; notifications of a channel other than 'telegram' are neither sent
\* nor marked
C20_MarkedOnlyAfterSent ==
    /\ []MarkedOnlyWhenSent
    /\ [][FailedSendLeavesPending]_vars

\* a send that raised, in a cycle after one whose notification was marked:
\* the loop sleeps before its next notification and this one is not marked
C20_Witness ==
    /\ poller.pc = "pause"
    /\ poller.sent = "failed"
    /\ marked # {}
    /\ PollNotification.id \notin marked

\* bot.send_message for the loop's notification returns with this step
NotificationSent == poller.pc = "send" /\ poller'.sent = "ok"

\* C21: a notification that was put into the user's chat is not sent again,
\* in the same or a later polling cycle, also when the markNotificationSent
\* call after the send failed
C21_SentOnlyOnce ==
    [][NotificationSent => PollNotification.id \notin chat_messages]_vars

\* the loop ends with the duplicate-query abort in this step
DuplicateAbort == pc = "validating" /\ pc' = "failed" /\ outcome'.text = StuckQuestion

\* C22: the duplicate-query abort happens only when the query generated in
\* the current attempt equals the failed query of an earlier attempt; a first
\* attempt that fails validation is never reported as a duplicate
C22_DuplicateAbortNeedsEarlierQuery ==
    [][DuplicateAbort => DuplicatesPreviousQuery]_vars

\* a path that starts with '/' and ends with '/' only when it is '/'
IsNormalized(directory) ==
    /\ directory # << >>
    /\ Head(directory) = "/"
    /\ directory[Len(directory)] = "/" => directory = <<"/">>

\* C25: the directory the file handlers normalise and keep, after /cd or
\* /files with any argument, starts with '/' and does not end with '/' unless
\* it is exactly '/'
C25_DirectoryIsNormalized ==
    \A u \in ChatUsers :
        Has(user_data[u], "current_directory") =>
            IsNormalized(user_data[u]["current_directory"])

(***************************************************************************)
(* backend_client/simple_client.py: GraphQLClient                          *)
(***************************************************************************)
\* a query text as the pieces the resolution looks at: plain text, and
\* placeholders (a word ending in _ID_PLACEHOLDER) bare or between quotes
Text(t) == [kind |-> "text", text |-> t, quote |-> "none"]

Placeholder(name, quote) == [kind |-> "placeholder", text |-> name, quote |-> quote]

\* "<id>": what a placeholder is replaced by
Quoted(id) == [kind |-> "id", text |-> id, quote |-> "double"]

\* the queries handed to execute_with_resolution
ClientQueries ==
    { <<Text("query { skills { id name } }")>>,
      <<Text("mutation { startSession(skillId:"),
        Placeholder("SKILL_ID_PLACEHOLDER", "double"), Text(") { id } }")>>,
      <<Text("mutation { startSession(skillId:"),
        Placeholder("PYTHON_ID_PLACEHOLDER", "single"), Text(") { id } skill(id:"),
        Placeholder("SKILL_ID_PLACEHOLDER", "none"), Text(") { name } }")>>,
      <<Text("mutation { stopSession(id:"),
        Placeholder("ACTIVITY_ID_PLACEHOLDER", "double"), Text(") { id } }")>>,
      <<Text("mutation { stopSession(id:"),
        Placeholder("ACTIVITY_ID_PLACEHOLDER", "none"), Text(") { id } startSession(skillId:"),
        Placeholder("SKILL_ID_PLACEHOLDER", "double"), Text(") { id } }")>>,
      <<Text("query { skill(id:"),
        Placeholder("PYTHON_ID_PLACEHOLDER", "none"), Text(") { id name } }")>> }

\* re.findall(r'["\']?(\w+_ID_PLACEHOLDER)["\']?', query)
FindPlaceholders(query) ==
    LET IsPlaceholder(token) == token.kind = "placeholder"
        found == SelectSeq(query, IsPlaceholder)
    IN  [i \in 1..Len(found) |-> found[i].text]

\* query.replace(old, '"<id>"') where old is the placeholder between `quote`s
ReplaceQuoted(query, name, quote, id) ==
    [i \in 1..Len(query) |->
        IF query[i].kind = "placeholder" /\ query[i].text = name /\ query[i].quote = quote
        THEN Quoted(id)
        ELSE query[i]]

ReplacePlaceholderQuotedOnly(query, name, id) ==
    ReplaceQuoted(ReplaceQuoted(query, name, "double", id), name, "single", id)

\* the three replace calls made for one placeholder
ReplacePlaceholder(query, name, id) ==
    ReplaceQuoted(ReplaceQuoted(ReplaceQuoted(query, name, "double", id), name, "single", id),
                  name, "none", id)

RECURSIVE ReplaceEach(_, _, _)
\* for placeholder in skill_matches: ...
ReplaceEach(query, matches, id) ==
    IF matches = << >>
    THEN query
    ELSE ReplaceEach(ReplacePlaceholder(query, Head(matches), id), Tail(matches), id)

\* 'ACTIVITY_ID_PLACEHOLDER' in query
NeedsActiveSession(query) ==
    \E i \in 1..Len(query) :
        query[i].kind = "placeholder" /\ query[i].text = "ACTIVITY_ID_PLACEHOLDER"

\* user messages, with the skill name _extract_skill_name finds in each
\* ("" for None)
UserMessages ==
    { [text |-> "start a Python session", skill_name |-> "Python"],
      [text |-> "what did i do today?", skill_name |-> ""] }

\* answers of the backend to the skills query
SkillLists ==
    { << >>,
      <<[id |-> "skill-1", name |-> "python"]>>,
      <<[id |-> "skill-2", name |-> "Pythons"]>>,
      <<[id |-> "skill-2", name |-> "Pythons"], [id |-> "skill-3", name |-> "Python3"]>>,
      <<[id |-> "skill-4", name |-> "Guitar"]>> }

\* str.lower() of the names above
LowerName(name) ==
    CASE name = "Python"  -> "python"
      [] name = "Pythons" -> "pythons"
      [] name = "Python3" -> "python3"
      [] name = "Guitar"  -> "guitar"
      [] OTHER            -> name

\* difflib: the names at least 60% similar to skill_name
IsCloseMatch(skill_name, name) ==
    skill_name = "Python" /\ name \in {"python", "Pythons", "Python3"}

\* _resolve_skill after the skills query returned `skills`: the id of the
\* skill, or "" when it raises ValueError
ResolveSkill(skill_name, skills) ==
    LET exact == { i \in 1..Len(skills) : LowerName(skills[i].name) = LowerName(skill_name) }
        close == { i \in 1..Len(skills) : IsCloseMatch(skill_name, skills[i].name) }
    IN  IF skills = << >> THEN ""
        ELSE IF exact # {} THEN skills[CHOOSE i \in exact : \A j \in exact : i <= j].id
        ELSE IF Cardinality(close) = 1 THEN skills[CHOOSE i \in close : TRUE].id
        ELSE ""

\* answers of the backend to the active-session query: the id, "" for null
ActiveSessions == {"", "session-9"}

\* answers of the backend to the login mutation: no login object, a payload
\* without a token, a payload with one
LoginResponses ==
    { [login |-> FALSE, token |-> NoToken],
      [login |-> TRUE,  token |-> NoToken],
      [login |-> TRUE,  token |-> "jwt"] }

\* what the backend did with the last operation of a method: it answered
\* (with a login payload, for a login), or the call raised
Answered == [status |-> "ok", login |-> FALSE, token |-> ""]

LoginAnswered(response) == [status |-> "ok", login |-> response.login, token |-> response.token]

Failed == [status |-> "error", login |-> FALSE, token |-> ""]

\* the method raises an exception of class cls
Raised(cls, received) ==
    [kind |-> "raised", cls |-> cls, value |-> << >>, received |-> received]

\* the method returns value
Returned(value, received) ==
    [kind |-> "returned", cls |-> "", value |-> value, received |-> received]

\* an operation sent to the backend through self.execute
Sent(purpose, query) == [purpose |-> purpose, query |-> query]

KeepAuthToken(c, token) == c

\* set_auth_token(token)
SetAuthToken(c, token) == [c EXCEPT !.auth_token = token]

\* a client as a caller finds it: built without a token, or with one
InitClient ==
    /\ RetryNotStarted
    /\ BotAtRest
    /\ BackendAtRest
    /\ UploadAtRest
    /\ main = MainNotStarted
    /\ \E token \in {NoToken, "old-jwt"} : client = [auth_token |-> token]
    /\ request = NoRequest
    /\ wire = << >>
    /\ answer = NoAnswer

\* login(email, password) up to its await of self.execute
CallLogin ==
    /\ request = NoRequest
    /\ request' = [NoRequest EXCEPT !.op = "login", !.pc = "execute"]
    /\ wire' = <<Sent("login", << >>)>>
    /\ answer' = NoAnswer
    /\ UNCHANGED client
    /\ UNCHANGED <<retryVars, botVars, backendVars, uploadVars>>

\* execute_with_resolution(query, user_message=message) up to its first await
CallExecuteWithResolution(query, message) ==
    /\ request = NoRequest
    /\ LET started == [NoRequest EXCEPT !.op = "execute_with_resolution",
                                        !.original = query, !.query = query,
                                        !.skill_name = message.skill_name]
       IN  IF FindPlaceholders(query) # << >>
           THEN IF message.skill_name = ""
                THEN /\ request' = NoRequest
                     /\ wire' = << >>
                     /\ answer' = Raised("ValueError", NoReceived)
                ELSE /\ request' = [started EXCEPT !.pc = "skills"]
                     /\ wire' = <<Sent("skills", << >>)>>
                     /\ answer' = NoAnswer
           ELSE IF NeedsActiveSession(query)
           THEN /\ request' = [started EXCEPT !.pc = "active_session"]
                /\ wire' = <<Sent("active_session", << >>)>>
                /\ answer' = NoAnswer
           ELSE /\ request' = [started EXCEPT !.pc = "execute"]
                /\ wire' = <<Sent("query", query)>>
                /\ answer' = NoAnswer
    /\ UNCHANGED client
    /\ UNCHANGED <<retryVars, botVars, backendVars, uploadVars>>

\* the method goes on to self.execute(query, variables) with the query it built
ExecuteResolved(query) ==
    /\ request' = [request EXCEPT !.pc = "execute", !.query = query]
    /\ wire' = Append(wire, Sent("query", query))
    /\ answer' = answer

\* the method ends
EndRequest(result) ==
    /\ request' = NoRequest
    /\ wire' = wire
    /\ answer' = result

\* the query of _resolve_skill or of _resolve_active_session returns, and
\* execute_with_resolution runs on to its next await
LookupReturns ==
    /\ request.pc \in {"skills", "active_session"}
    /\ IF request.pc = "skills"
       THEN \E skills \in SkillLists :
              LET skill_id == ResolveSkill(request.skill_name, skills)
                  resolved == ReplaceEach(request.query, FindPlaceholders(request.query),
                                          skill_id)
              IN  IF skill_id = ""
                  THEN EndRequest(Raised("ValueError", Answered))
                  ELSE IF NeedsActiveSession(resolved)
                  THEN /\ request' = [request EXCEPT !.pc = "active_session",
                                                     !.query = resolved]
                       /\ wire' = Append(wire, Sent("active_session", << >>))
                       /\ answer' = answer
                  ELSE ExecuteResolved(resolved)
       ELSE \E activity_id \in ActiveSessions :
              IF activity_id = ""
              THEN EndRequest(Raised("ValueError", Answered))
              ELSE ExecuteResolved(ReplacePlaceholder(request.query,
                                                      "ACTIVITY_ID_PLACEHOLDER", activity_id))
    /\ UNCHANGED client
    /\ UNCHANGED <<retryVars, botVars, backendVars, uploadVars>>

\* that query raises: the exception leaves execute_with_resolution as it is
LookupRaises ==
    /\ request.pc \in {"skills", "active_session"}
    /\ EndRequest(Raised("TransportQueryError", Failed))
    /\ UNCHANGED client
    /\ UNCHANGED <<retryVars, botVars, backendVars, uploadVars>>

\* await self.execute(...) of login or of execute_with_resolution returns
ClientExecuteReturns ==
    /\ request.pc = "execute"
    /\ IF request.op = "login"
       THEN \E response \in LoginResponses :
              IF response.login /\ response.token # NoToken
              THEN /\ client' = SetAuthToken(client, response.token)
                   /\ EndRequest(Returned(response, LoginAnswered(response)))
              ELSE /\ client' = client
                   /\ EndRequest(Raised("ValueError", LoginAnswered(response)))
       ELSE /\ client' = client
            /\ EndRequest(Returned(request.query, Answered))
    /\ UNCHANGED <<retryVars, botVars, backendVars, uploadVars>>

\* await self.execute(...) raises: login turns it into ValueError,
\* execute_with_resolution lets it through
ClientExecuteRaises ==
    /\ request.pc = "execute"
    /\ EndRequest(Raised(IF request.op = "login" THEN "ValueError" ELSE "TransportQueryError",
                         Failed))
    /\ UNCHANGED client
    /\ UNCHANGED <<retryVars, botVars, backendVars, uploadVars>>

NextClient ==
    \/ CallLogin
    \/ \E query \in ClientQueries, message \in UserMessages :
         CallExecuteWithResolution(query, message)
    \/ LookupReturns
    \/ LookupRaises
    \/ ClientExecuteReturns
    \/ ClientExecuteRaises

SpecClient == InitClient /\ [][NextClient]_vars

\* a call of login ends with this step
LoginEnds == request.op = "login" /\ request' = NoRequest

\* the response of the backend holds a token
HasToken(received) == received.status = "ok" /\ received.login /\ received.token # NoToken

\* C11: login returns the auth payload and sets the client's auth_token to the
\* returned token exactly when the backend response contains a token; when the
\* backend call raises or the response has no token, login raises ValueError
\* and the client's auth_token keeps its previous value
C11_LoginSetsTokenOrRaises ==
    [][LoginEnds =>
          IF HasToken(answer'.received)
          THEN /\ answer'.kind = "returned"
               /\ answer'.value.token = answer'.received.token
               /\ client'.auth_token = answer'.received.token
          ELSE /\ answer'.kind = "raised"
               /\ answer'.cls = "ValueError"
               /\ client'.auth_token = client.auth_token]_vars

\* a login has returned on a client that now carries the new token
C11_Witness ==
    /\ request = NoRequest
    /\ answer.kind = "returned"
    /\ HasToken(answer.received)
    /\ client.auth_token = "jwt"

\* execute_with_resolution is parked at the execution of the user's query
AtExecution == request.op = "execute_with_resolution" /\ request.pc = "execute"

\* the ids of the skills the backend knows
SkillIds == UNION { { skills[i].id : i \in 1..Len(skills) } : skills \in SkillLists }

\* `query` with every placeholder replaced by "<id>"
WithEveryPlaceholder(query, id) ==
    [i \in 1..Len(query) |-> IF query[i].kind = "placeholder" THEN Quoted(id) ELSE query[i]]

\* the operations sent for execution, as opposed to the lookups
ExecutedQueries == { i \in 1..Len(wire) : wire[i].purpose = "query" }

\* a query with a placeholder is at the backend only in its resolved form
SentQueryIsResolved ==
    (AtExecution /\ FindPlaceholders(request.original) # << >>) =>
        /\ wire[Len(wire)] = Sent("query", request.query)
        /\ FindPlaceholders(request.query) = << >>
        /\ \E id \in SkillIds : request.query = WithEveryPlaceholder(request.original, id)

\* the call ends because no skill could be resolved: no skill name in the
\* message, or the skills the backend listed hold no match for it
SkillUnresolved ==
    /\ request' = NoRequest
    /\ \/ request = NoRequest
       \/ request.pc = "skills" /\ answer'.received.status = "ok"

\* C12: a query that contained a skill placeholder is sent to the backend only
\* after every placeholder was replaced by the resolved skill id; when the
\* skill cannot be resolved, execute_with_resolution raises ValueError and
\* sends no query for execution
C12_ResolvedBeforeSent ==
    /\ []SentQueryIsResolved
    /\ [][SkillUnresolved =>
              /\ answer'.kind = "raised"
              /\ answer'.cls = "ValueError"
              /\ \A i \in 1..Len(wire') : wire'[i].purpose # "query"]_vars

\* a query with a bare and a quoted placeholder is at the backend, resolved
C12_Witness ==
    /\ AtExecution
    /\ Len(FindPlaceholders(request.original)) = 2
    /\ FindPlaceholders(request.query) = << >>
    /\ wire[Len(wire)].purpose = "query"

\* C13: a query containing ACTIVITY_ID_PLACEHOLDER is executed with the
\* placeholder replaced by the id of the user's active session (and is not
\* executed when there is none)
C13_ActivityPlaceholderGetsSessionId ==
    AtExecution =>
        \A i \in 1..Len(request.original) :
            (request.original[i].kind = "placeholder"
             /\ request.original[i].text = "ACTIVITY_ID_PLACEHOLDER")
            => \E activity_id \in ActiveSessions \ {""} :
                   request.query[i] = Quoted(activity_id)

(***************************************************************************)
(* handlers/file_handlers.py: upload_file_handler from its try block on,   *)
(* for a user who passed the checks before it.  Updates are handled one at *)
(* a time (main builds the application without concurrent_updates), so one *)
(* upload is in flight at most.  A file name is the sequence of the pieces *)
(* of its stem followed by its suffix.                                     *)
(***************************************************************************)
MaxUploads == 3

\* original_filename of the documents users send; NoFilename is a document
\* without file_name
Filenames == { <<"a", ".txt">>, <<"a", "_", "1", ".txt">>, NoFilename }

\* str(counter)
Digits == <<"1", "2", "3", "4", "5", "6", "7", "8", "9">>

\* Path(original_filename).stem and .suffix
FileStem(filename) == SubSeq(filename, 1, Len(filename) - 1)

FileExt(filename) == filename[Len(filename)]

\* f"{file_stem}_{counter}{file_ext}"
NumberedName(filename, counter) ==
    FileStem(filename) \o <<"_", Digits[counter]>> \o <<FileExt(filename)>>

RECURSIVE NextFreeName(_, _, _)
\* the while loop: the first numbered name, from `counter` on, that does not exist
NextFreeName(filename, counter, stored) ==
    IF NumberedName(filename, counter) \in DOMAIN stored
    THEN NextFreeName(filename, counter + 1, stored)
    ELSE NumberedName(filename, counter)

\* a handler that stores under the original file name whatever exists
PhysicalFilenameUnchecked(filename, stored) == filename

\* physical_filename: the original name, or a numbered one when it exists
PhysicalFilename(filename, stored) ==
    IF filename \in DOMAIN stored THEN NextFreeName(filename, 1, stored) ELSE filename

\* target_file_path.exists() and target_file_path.unlink() of the cleanups
Unlink(stored, name) == IF name \in DOMAIN stored THEN Pop(stored, name) ELSE stored

\* the cleanup of the except clause and of the else branch: the file at
\* target_file_path goes when the name is bound and the file exists
Cleanup(stored, name) == IF name = NoFilename THEN stored ELSE Unlink(stored, name)

\* the try block up to await file.download_to_drive: the directories, the
\* name to store under; `configured` is whether Config has FILE_TEMP_PATH and
\* FILE_STORAGE_PATH and the directories can be made.  Without them, and
\* without a file name, the block raises before any path is bound
UploadBegins(filename, configured) ==
    /\ upload.pc \in {"idle", "finished"}
    /\ uploads < MaxUploads
    /\ uploads' = uploads + 1
    /\ upload' =
           IF configured /\ filename # NoFilename
           THEN [pc |-> "download", id |-> uploads + 1, filename |-> filename,
                 target |-> PhysicalFilename(filename, storage), error |-> "none"]
           ELSE [pc |-> "error_reply", id |-> uploads + 1, filename |-> filename,
                 target |-> NoFilename, error |-> "paths"]
    /\ UNCHANGED <<storage, records>>
    /\ UNCHANGED <<retryVars, botVars, clientVars, backendVars>>

\* the download returns: shutil.move puts the file at target_file_path,
\* replacing what is there; then the handler awaits createFile
DownloadReturns ==
    /\ upload.pc = "download"
    /\ storage' = Put(storage, upload.target, upload.id)
    /\ upload' = [upload EXCEPT !.pc = "create"]
    /\ UNCHANGED <<uploads, records>>
    /\ UNCHANGED <<retryVars, botVars, clientVars, backendVars>>

\* the download raises: the except clause removes the temporary file and
\* whatever exists at target_file_path
DownloadRaises ==
    /\ upload.pc = "download"
    /\ storage' = Cleanup(storage, upload.target)
    /\ upload' = [upload EXCEPT !.pc = "error_reply", !.error = "download"]
    /\ UNCHANGED <<uploads, records>>
    /\ UNCHANGED <<retryVars, botVars, clientVars, backendVars>>

\* createFile returns the record it made, or returns nothing and the else
\* branch removes the file
CreateFileReturns ==
    /\ upload.pc = "create"
    /\ \E created_file \in BOOLEAN :
         IF created_file
         THEN /\ records' = records \cup {[storagePath |-> upload.target, id |-> upload.id]}
              /\ upload' = [upload EXCEPT !.pc = "success_reply"]
              /\ UNCHANGED storage
         ELSE /\ storage' = Cleanup(storage, upload.target)
              /\ upload' = [upload EXCEPT !.pc = "failed_reply"]
              /\ UNCHANGED records
    /\ UNCHANGED uploads
    /\ UNCHANGED <<retryVars, botVars, clientVars, backendVars>>

\* createFile raises, no record made: the except clause removes the file
CreateFileRaises ==
    /\ upload.pc = "create"
    /\ storage' = Cleanup(storage, upload.target)
    /\ upload' = [upload EXCEPT !.pc = "error_reply", !.error = "createFile"]
    /\ UNCHANGED <<uploads, records>>
    /\ UNCHANGED <<retryVars, botVars, clientVars, backendVars>>

\* the reply of the try block ('File uploaded successfully' or 'Failed to
\* create file record') returns and the handler ends, or raises into the
\* except clause, which runs its cleanup
UploadReplied ==
    /\ upload.pc \in {"success_reply", "failed_reply"}
    /\ \E delivered \in BOOLEAN :
         IF delivered
         THEN /\ upload' = [upload EXCEPT !.pc = "finished"]
              /\ UNCHANGED storage
         ELSE /\ upload' = [upload EXCEPT !.pc = "error_reply", !.error = "reply"]
              /\ storage' = Cleanup(storage, upload.target)
    /\ UNCHANGED <<uploads, records>>
    /\ UNCHANGED <<retryVars, botVars, clientVars, backendVars>>

\* the reply of the except clause returns or raises out of the handler
UploadErrorReplied ==
    /\ upload.pc = "error_reply"
    /\ upload' = [upload EXCEPT !.pc = "finished"]
    /\ UNCHANGED <<uploads, storage, records>>
    /\ UNCHANGED <<retryVars, botVars, clientVars, backendVars>>

InitUpload ==
    /\ RetryNotStarted
    /\ BotAtRest
    /\ ClientAtRest
    /\ BackendAtRest
    /\ UploadAtRest
    /\ main = MainPolling

NextUpload ==
    \/ \E filename \in Filenames, configured \in BOOLEAN : UploadBegins(filename, configured)
    \/ DownloadReturns
    \/ DownloadRaises
    \/ CreateFileReturns
    \/ CreateFileRaises
    \/ UploadReplied
    \/ UploadErrorReplied

SpecUpload == InitUpload /\ [][NextUpload]_vars

\* the file of the upload is in permanent storage
UploadStored ==
    /\ upload.target \in DOMAIN storage
    /\ storage[upload.target] = upload.id

\* the backend made the file record of the upload
UploadRecorded == \E record \in records : record.id = upload.id

KeepsStoredFiles ==
    \A name \in DOMAIN storage :
        IF name \in DOMAIN storage'
        THEN storage'[name] = storage[name]
        ELSE storage[name] = upload.id

\* the file is moved to a name that does not exist
MovesToFreeName ==
    (upload.pc = "download" /\ upload'.pc = "create") =>
        /\ upload.target \notin DOMAIN storage
        /\ storage' = Put(storage, upload.target, upload.id)

====
